---- MODULE Spec2Model ----
(***************************************************************************)
(* Model of the LLM parameter-sweep backend:                               *)
(*   app/models/schemas.py      request schema (ParameterRange)            *)
(*   app/services/experiment.py validate_parameter_ranges and              *)
(*                              generate_parameter_combinations            *)
(*   app/services/llm_service.py generate_batch (asyncio.gather fan-out)   *)
(*   app/api/experiments.py     create_experiment                          *)
(*                                                                         *)
(* Numbers.  Every float of a request is a multiple of 0.001 and is held   *)
(* as an integer count of thousandths (0.7 is 700, 1000.0 is 1000000).     *)
(* Python evaluates the range arithmetic in IEEE-754 binary64, where a     *)
(* quotient or a running sum of such decimals can land just beside the     *)
(* decimal result.  The two places where that decides a branch (the int()  *)
(* of the quotient in count_values, the `current <= max` test in           *)
(* get_values) are modelled with the binary64 outcomes of exactly those    *)
(* expressions, tabulated in QuotientBelow and SumAbove.                   *)
(*                                                                         *)
(* Optional[T] is a sequence of length 0 (None) or 1 (the value).          *)
(***************************************************************************)
EXTENDS Integers, Sequences, FiniteSets, TLC

None == <<>>
Some(x) == <<x>>

(***************************************************************************)
(* Bounds of the model.                                                    *)
(***************************************************************************)
\* min and max of a swept range go from 0.0 to MaxTenths/10 in steps of 0.1
MaxTenths == 10
\* largest number of concurrent generation calls whose interleavings are explored
MaxBatch == 3
\* the longest response text scored on its own, in fragments
MaxFragments == 3

(***************************************************************************)
(* Program constants.                                                      *)
(***************************************************************************)
MAX_COMBINATIONS == 50
DefaultTemperature == 700
DefaultTopP == 1000
DefaultMaxTokens == 1000000
DefaultPresencePenalty == 0
DefaultFrequencyPenalty == 0

(***************************************************************************)
(* binary64 outcomes.                                                      *)
(* QuotientBelow: <<min, max, step>> for which (max - min) / step, exactly *)
(* an integer q in decimal arithmetic, evaluates to a double just below q, *)
(* so that int() yields q - 1 (0.7 / 0.1 = 6.999999999999999).             *)
(* SumAbove: <<min, step, k>> for which min + step + ... + step            *)
(* (k additions) evaluates to a double above the double of the decimal     *)
(* min + k*step (0.1 + 0.1 + 0.1 = 0.30000000000000004 > 0.3).             *)
(* Both cover min, max in 0.0, 0.1 .. 1.2 and step in 0.01, 0.1, 0.5.      *)
(***************************************************************************)
QuotientBelow ==
    { <<0, 300, 100>>, <<0, 600, 100>>, <<0, 700, 100>>, <<0, 1200, 100>>, <<100, 300, 10>>,
      <<100, 300, 100>>, <<100, 700, 100>>, <<100, 1200, 10>>, <<100, 1200, 100>>, <<200, 300, 10>>,
      <<200, 300, 100>>, <<200, 500, 100>>, <<200, 600, 10>>, <<200, 600, 100>>, <<200, 700, 10>>,
      <<200, 700, 100>>, <<200, 700, 500>>, <<200, 900, 100>>, <<300, 600, 100>>, <<300, 700, 10>>,
      <<300, 700, 100>>, <<300, 1000, 100>>, <<300, 1200, 10>>, <<300, 1200, 100>>, <<400, 500, 10>>,
      <<400, 500, 100>>, <<400, 600, 10>>, <<400, 600, 100>>, <<400, 700, 10>>, <<400, 700, 100>>,
      <<400, 1000, 100>>, <<400, 1200, 10>>, <<400, 1200, 100>>, <<500, 600, 10>>, <<500, 600, 100>>,
      <<500, 700, 10>>, <<500, 700, 100>>, <<500, 1200, 100>>, <<600, 700, 10>>, <<600, 700, 100>>,
      <<600, 1200, 100>>, <<800, 900, 10>>, <<800, 900, 100>>, <<800, 1000, 10>>, <<800, 1000, 100>>,
      <<800, 1200, 10>>, <<800, 1200, 100>>, <<900, 1000, 10>>, <<900, 1000, 100>>, <<900, 1200, 10>>,
      <<900, 1200, 100>>, <<1000, 1200, 10>>, <<1000, 1200, 100>>, <<1100, 1200, 10>>, <<1100, 1200, 100>> }

SumAbove ==
    { <<0, 10, 20>>, <<0, 10, 30>>, <<0, 10, 40>>, <<0, 10, 50>>, <<0, 10, 60>>,
      <<0, 10, 70>>, <<0, 10, 80>>, <<0, 10, 90>>, <<0, 10, 100>>, <<0, 10, 110>>,
      <<0, 10, 120>>, <<0, 100, 3>>, <<100, 10, 10>>, <<100, 10, 20>>, <<100, 10, 30>>,
      <<100, 10, 40>>, <<100, 10, 50>>, <<100, 10, 60>>, <<100, 10, 70>>, <<100, 10, 80>>,
      <<100, 10, 90>>, <<100, 10, 100>>, <<100, 10, 110>>, <<100, 100, 2>>, <<200, 10, 10>>,
      <<200, 10, 20>>, <<200, 10, 30>>, <<200, 10, 40>>, <<200, 10, 50>>, <<200, 10, 60>>,
      <<200, 10, 70>>, <<200, 10, 80>>, <<200, 10, 90>>, <<200, 10, 100>>, <<200, 100, 1>>,
      <<300, 10, 10>>, <<300, 10, 20>>, <<300, 10, 30>>, <<300, 10, 40>>, <<300, 10, 50>>,
      <<300, 10, 60>>, <<300, 10, 70>>, <<300, 10, 80>>, <<300, 10, 90>>, <<400, 10, 10>>,
      <<400, 10, 20>>, <<400, 10, 30>>, <<400, 10, 40>>, <<400, 10, 50>>, <<400, 10, 60>>,
      <<400, 10, 70>>, <<400, 10, 80>>, <<500, 10, 10>>, <<500, 10, 20>>, <<500, 10, 30>>,
      <<500, 10, 40>>, <<500, 10, 50>>, <<500, 10, 60>>, <<500, 10, 70>>, <<600, 10, 10>>,
      <<600, 10, 20>>, <<600, 10, 30>>, <<600, 10, 40>>, <<600, 10, 50>>, <<600, 10, 60>>,
      <<700, 10, 20>>, <<700, 10, 30>>, <<700, 10, 40>>, <<700, 10, 50>>, <<800, 10, 10>>,
      <<800, 10, 20>>, <<800, 10, 30>>, <<800, 10, 40>>, <<800, 100, 4>>, <<900, 10, 30>>,
      <<900, 100, 3>>, <<1000, 10, 20>>, <<1000, 100, 2>>, <<1100, 10, 10>>, <<1100, 100, 1>> }

(***************************************************************************)
(* Python primitives.                                                      *)
(***************************************************************************)
\* bool(x) of an Optional[float]: None and 0.0 are falsy
truthy_float(opt) == opt # None /\ opt[1] # 0

\* bool(x) of an Optional[List[float]]: None and [] are falsy
truthy_list(opt) == opt # None /\ opt[1] # <<>>

\* int(a / b) of an exact quotient: truncation towards zero
trunc_div(a, b) ==
    IF (a >= 0) = (b > 0) THEN (IF a >= 0 THEN a ELSE -a) \div (IF b > 0 THEN b ELSE -b)
    ELSE -((IF a >= 0 THEN a ELSE -a) \div (IF b > 0 THEN b ELSE -b))

\* int((max - min) / step) evaluated in binary64
float_quotient_int(min, max, step) ==
    trunc_div(max - min, step) - (IF <<min, max, step>> \in QuotientBelow THEN 1 ELSE 0)

\* int(v) of a float v held in thousandths
int_of(v) == trunc_div(v, 1000)

\* the float `current` after k executions of `current += step` from min:
\* the decimal it is nearest to, and whether the double lies above that decimal
float_sum(min, step, k) ==
    [near |-> min + k * step, above |-> <<min, step, k>> \in SumAbove]

\* current <= max, for a float max that is the double of its decimal
float_le(current, max) ==
    current.near < max \/ (current.near = max /\ ~current.above)

\* round(current, 3): the double of the decimal nearest to current
round3(current) == current.near

max_of(a, b) == IF a >= b THEN a ELSE b

(***************************************************************************)
(* An operator that models a Python function returns                       *)
(* [returns |-> TRUE, value |-> v] when the function returns v, and        *)
(* DoesNotReturn when its loop is still running after LoopFuel iterations, *)
(* more than any loop that ends can take on the modelled ranges.           *)
(***************************************************************************)
Returns(v) == [returns |-> TRUE, value |-> v]
DoesNotReturn == [returns |-> FALSE, value |-> <<>>]
LoopFuel == 10 * MaxTenths + 2

(***************************************************************************)
(* schemas.py: ParameterRange, ExperimentRequest                           *)
(***************************************************************************)
ParameterRange(min, max, step, values) ==
    [min |-> min, max |-> max, step |-> step, values |-> values]

\* Field(ge=0) on min and max, and the validator max_greater_than_min;
\* step and values carry no constraint
range_valid(param_range) ==
    /\ param_range.min >= 0
    /\ param_range.max >= 0
    /\ ~(param_range.max < param_range.min)

Slots == <<"temperature", "top_p", "max_tokens", "presence_penalty", "frequency_penalty">>

\* pydantic accepts the request body (otherwise FastAPI answers 422 and the
\* handler is never entered)
schema_valid(request) ==
    /\ request.prompt # ""
    /\ \A i \in 1..Len(Slots) :
          request[Slots[i]] # None => range_valid(request[Slots[i]][1])

(***************************************************************************)
(* experiment.py: generate_parameter_combinations                          *)
(***************************************************************************)
\* the while loop of get_values: `current` has had k additions when the test
\* is made for the (k+1)-th time; the loop ends at the first test that fails
\* and has appended round(current, 3) once for every test that held
while_loop(param_range) ==
    LET current(k) == float_sum(param_range.min, param_range.step[1], k)
        holds(k)   == float_le(current(k), param_range.max)
    IN  IF \A k \in 0..LoopFuel : holds(k) THEN DoesNotReturn
        ELSE LET n == CHOOSE k \in 0..LoopFuel :
                          ~holds(k) /\ \A j \in 0..(k - 1) : holds(j)
             IN  Returns([k \in 1..n |-> round3(current(k - 1))])

get_values(param_range, default) ==
    IF param_range = None THEN Returns(<<default>>)
    ELSE LET r == param_range[1]
         IN  IF truthy_list(r.values) THEN Returns(r.values[1])
             ELSE IF truthy_float(r.step)
                  THEN LET loop == while_loop(r)
                       IN  IF ~loop.returns THEN DoesNotReturn
                           ELSE IF loop.value # <<>> THEN loop
                           ELSE Returns(<<default>>)
                  ELSE IF r.min # r.max THEN Returns(<<r.min, r.max>>)
                       ELSE Returns(<<r.min>>)

\* variant: the first factor varies fastest (the loops nested the other way round)
RECURSIVE product_first_fastest(_)
product_first_fastest(seqs) ==
    IF seqs = <<>> THEN << <<>> >>
    ELSE LET head == Head(seqs)
             rest == product_first_fastest(Tail(seqs))
             n    == Len(head)
         IN  [k \in 1..(n * Len(rest)) |->
                 <<head[((k - 1) % n) + 1]>> \o rest[((k - 1) \div n) + 1]]

\* itertools.product of a sequence of sequences, last factor varying fastest
RECURSIVE product(_)
product(seqs) ==
    IF seqs = <<>> THEN << <<>> >>
    ELSE LET head == Head(seqs)
             rest == product(Tail(seqs))
             m    == Len(rest)
         IN  [k \in 1..(Len(head) * m) |->
                 <<head[((k - 1) \div m) + 1]>> \o rest[((k - 1) % m) + 1]]

generate_parameter_combinations(request) ==
    LET temperatures        == get_values(request.temperature, DefaultTemperature)
        top_ps              == get_values(request.top_p, DefaultTopP)
        max_tokens_floats   == get_values(request.max_tokens, DefaultMaxTokens)
        presence_penalties  == get_values(request.presence_penalty, DefaultPresencePenalty)
        frequency_penalties == get_values(request.frequency_penalty, DefaultFrequencyPenalty)
    IN  IF ~(/\ temperatures.returns /\ top_ps.returns /\ max_tokens_floats.returns
             /\ presence_penalties.returns /\ frequency_penalties.returns)
        THEN DoesNotReturn
        ELSE LET max_tokens_list == [i \in 1..Len(max_tokens_floats.value) |->
                                        int_of(max_tokens_floats.value[i])]
                 combinations == product(<<temperatures.value, top_ps.value, max_tokens_list,
                                           presence_penalties.value, frequency_penalties.value>>)
             IN  Returns([i \in 1..Len(combinations) |->
                     [temperature       |-> combinations[i][1],
                      top_p             |-> combinations[i][2],
                      max_tokens        |-> combinations[i][3],
                      presence_penalty  |-> combinations[i][4],
                      frequency_penalty |-> combinations[i][5]]])

(***************************************************************************)
(* experiment.py: validate_parameter_ranges                                *)
(***************************************************************************)
count_values(param_range, default) ==
    IF param_range = None THEN 1
    ELSE LET r == param_range[1]
         IN  IF truthy_list(r.values) THEN Len(r.values[1])
             ELSE IF truthy_float(r.step)
                  THEN max_of(float_quotient_int(r.min, r.max, r.step[1]) + 1, 1)
                  ELSE IF r.min # r.max THEN 2 ELSE 1

total_combinations(request) ==
    count_values(request.temperature, DefaultTemperature)
      * count_values(request.top_p, DefaultTopP)
      * count_values(request.max_tokens, DefaultMaxTokens)
      * count_values(request.presence_penalty, DefaultPresencePenalty)
      * count_values(request.frequency_penalty, DefaultFrequencyPenalty)

\* is_valid of the returned (is_valid, error_message)
validate_parameter_ranges(request) ==
    ~(total_combinations(request) > MAX_COMBINATIONS)

(***************************************************************************)
(* Python floats of metrics.py.  Every float the scorer computes is a      *)
(* quotient of small integers; it is held as the exact fraction            *)
(* <<numerator, denominator>> in lowest terms, denominator positive.       *)
(***************************************************************************)
RECURSIVE gcd(_, _)
gcd(a, b) == IF b = 0 THEN a ELSE gcd(b, a % b)

Ratio(n, d) ==
    LET g == gcd(IF n < 0 THEN -n ELSE n, d)
    IN  <<n \div g, d \div g>>

\* a + b; the common denominator is the least common multiple
plus(a, b) ==
    LET g == gcd(a[2], b[2])
    IN  Ratio(a[1] * (b[2] \div g) + b[1] * (a[2] \div g), (a[2] \div g) * b[2])
minus(a, b) == plus(a, <<-b[1], b[2]>>)
times(a, b) ==
    LET x == Ratio(a[1], b[2])
        y == Ratio(b[1], a[2])
    IN  <<x[1] * y[1], x[2] * y[2]>>
\* a / b for b # 0
over(a, b) ==
    IF b[1] > 0 THEN times(a, <<b[2], b[1]>>) ELSE times(a, <<-b[2], -b[1]>>)
leq(a, b) == a[1] * b[2] <= b[1] * a[2]
less(a, b) == a[1] * b[2] < b[1] * a[2]
least(a, b) == IF less(b, a) THEN b ELSE a
greatest(a, b) == IF less(a, b) THEN b ELSE a
absolute(a) == IF a[1] < 0 THEN <<-a[1], a[2]>> ELSE a
\* float(n) of an int n
whole(n) == <<n, 1>>

\* a raised exception: the function does not return
Raises(exception) == [returns |-> FALSE, raises |-> exception]

(***************************************************************************)
(* Python str.  A text is a string; a character is a string of length 1.   *)
(***************************************************************************)
char_at(s, i) == SubSeq(s, i, i)
chars_of(s) == {char_at(s, i) : i \in 1..Len(s)}

Uppercase == "ABCDEFGHIJKLMNOPQRSTUVWXYZ"
Lowercase == "abcdefghijklmnopqrstuvwxyz"
Digits == "0123456789"
\* str.isspace, and \s of re
Whitespace == {" ", "\t", "\n"}
\* the character classes [a-z] and \d of re
LowercaseChars == chars_of(Lowercase)
DigitChars == chars_of(Digits)
\* \w of re
WordChars == chars_of(Uppercase) \cup LowercaseChars \cup DigitChars \cup {"_"}
\* the character class [.!?]
Terminators == {".", "!", "?"}

\* the lowercase letter of every uppercase letter
lower_of ==
    [c \in chars_of(Uppercase) |->
        char_at(Lowercase, CHOOSE i \in 1..Len(Uppercase) : char_at(Uppercase, i) = c)]

lower_char(c) == IF c \in DOMAIN lower_of THEN lower_of[c] ELSE c

\* str.lower
RECURSIVE lower(_)
lower(s) ==
    IF Len(s) <= 1 THEN lower_char(s)
    ELSE LET half == Len(s) \div 2
         IN  lower(SubSeq(s, 1, half)) \o lower(SubSeq(s, half + 1, Len(s)))

\* str.strip
strip(s) ==
    LET inked == {i \in 1..Len(s) : char_at(s, i) \notin Whitespace}
    IN  IF inked = {} THEN ""
        ELSE SubSeq(s, CHOOSE i \in inked : \A j \in inked : i <= j,
                       CHOOSE i \in inked : \A j \in inked : j <= i)

\* `sub in s`
contains(s, sub) ==
    \E i \in 1..(Len(s) - Len(sub) + 1) : SubSeq(s, i, i + Len(sub) - 1) = sub

\* the positions 1..n in ascending order
positions(n) == [i \in 1..n |-> i]

\* the maximal runs of characters of s that lie in `class`, left to right
runs_in(s, class) ==
    LET n == Len(s)
        inside(i) == char_at(s, i) \in class
        starts == SelectSeq(positions(n), LAMBDA i : inside(i) /\ (i = 1 \/ ~inside(i - 1)))
        end_of(i) == CHOOSE j \in i..n :
                        /\ \A k \in i..j : inside(k)
                        /\ (j = n \/ ~inside(j + 1))
    IN  [k \in 1..Len(starts) |-> SubSeq(s, starts[k], end_of(starts[k]))]

\* the pieces of s between the maximal runs of characters of `class`,
\* an empty piece before a leading run and after a trailing run included
pieces_between(s, class) ==
    LET n == Len(s)
        sep(i) == char_at(s, i) \in class
        starts == SelectSeq(positions(n + 1), LAMBDA i : /\ (i = 1 \/ sep(i - 1))
                                                         /\ (i = 1 \/ i = n + 1 \/ ~sep(i)))
        end_of(i) == CHOOSE j \in (i - 1)..n :
                        /\ \A k \in i..j : ~sep(k)
                        /\ (j = n \/ sep(j + 1))
    IN  [k \in 1..Len(starts) |-> SubSeq(s, starts[k], end_of(starts[k]))]

\* re.split(r'[.!?]+', text)
re_split_terminators(text) == pieces_between(text, Terminators)

\* str.split(): the whitespace-separated words
split(s) == runs_in(s, chars_of(s) \ Whitespace)

\* re.findall(r'\b\w{3,}\b', s): the maximal runs of word characters of length >= 3
findall_words(s) == SelectSeq(runs_in(s, WordChars), LAMBDA w : Len(w) >= 3)

\* s.count(c) for a single character c
count_char(s, c) == Cardinality({i \in 1..Len(s) : char_at(s, i) = c})

\* sum(...) of a list of ints
RECURSIVE sum(_)
sum(ints) == IF ints = <<>> THEN 0 ELSE Head(ints) + sum(Tail(ints))

\* sum(...) of a list of floats
RECURSIVE sum_floats(_)
sum_floats(floats) ==
    IF floats = <<>> THEN whole(0) ELSE plus(Head(floats), sum_floats(Tail(floats)))

\* s.count(c + c): the non-overlapping occurrences of a doubled character
count_pair(s, c) ==
    LET doubled == runs_in(s, {c})
    IN  sum([k \in 1..Len(doubled) |-> Len(doubled[k]) \div 2])

\* the set a list holds: set(list)
set_of(list) == {list[k] : k \in 1..Len(list)}

(***************************************************************************)
(* metrics.py: QualityMetricsCalculator                                    *)
(***************************************************************************)
\* sentences = [s.strip() for s in re.split(r'[.!?]+', text) if s.strip()]
sentences_of(text) ==
    LET kept == SelectSeq(re_split_terminators(text), LAMBDA s : strip(s) # "")
    IN  [k \in 1..Len(kept) |-> strip(kept[k])]

transitions ==
    {"however", "therefore", "furthermore", "moreover", "additionally",
     "consequently", "thus", "hence", "meanwhile", "subsequently",
     "nevertheless", "nonetheless", "accordingly", "indeed", "specifically"}

\* Punctuation quality: min(proper_endings / len(sentences), 1.0)
punctuation_score(sentences) ==
    LET proper_endings ==
            Cardinality({k \in 1..Len(sentences) :
                /\ sentences[k] # ""
                /\ char_at(sentences[k], Len(sentences[k])) \in Terminators})
    IN  least(Ratio(proper_endings, Len(sentences)), whole(1))

\* Transition words: min(transition_count / max(len(sentences) * 0.3, 1), 1.0)
transition_score(text, sentences) ==
    LET text_lower == lower(text)
        transition_count == Cardinality({t \in transitions : contains(text_lower, t)})
    IN  least(over(whole(transition_count),
                   greatest(Ratio(Len(sentences) * 3, 10), whole(1))),
              whole(1))

\* Sentence length variance: 1.0 - min(abs(variance - 250) / 250, 1.0)
variance_score(sentences) ==
    LET lengths == [k \in 1..Len(sentences) |-> Len(sentences[k])]
        avg_length == Ratio(sum(lengths), Len(lengths))
        squares == [k \in 1..Len(lengths) |->
                       times(minus(whole(lengths[k]), avg_length),
                             minus(whole(lengths[k]), avg_length))]
        variance == over(sum_floats(squares), whole(Len(lengths)))
    IN  minus(whole(1),
              least(over(absolute(minus(variance, whole(250))), whole(250)), whole(1)))

_coherence_score(text) ==
    IF text = "" \/ Len(strip(text)) < 10 THEN Ratio(3, 10)
    ELSE LET sentences == sentences_of(text)
         IN  IF Len(sentences) < 2 THEN Ratio(5, 10)
             ELSE least(plus(plus(times(punctuation_score(sentences), Ratio(4, 10)),
                                  times(transition_score(text, sentences), Ratio(3, 10))),
                             times(variance_score(sentences), Ratio(3, 10))),
                        whole(1))

question_words ==
    {"what", "who", "when", "where", "why", "how", "which", "explain", "describe", "list"}

stop_words ==
    {"the", "a", "an", "and", "or", "but", "in", "on", "at", "to", "for", "of",
     "with", "by", "is", "are", "was", "were"}

\* set(w.lower() for w in re.findall(r'\b\w{3,}\b', s) if w.lower() not in stop_words)
meaningful_words(s) ==
    {lower(w) : w \in set_of(findall_words(s))} \ stop_words

_completeness_score(text, prompt) ==
    IF text = "" \/ prompt = "" THEN whole(0)
    ELSE LET prompt_lower == lower(prompt)
             found_questions == Cardinality({qw \in question_words : contains(prompt_lower, qw)})
             answered_score ==
                 least(Ratio(Len(text), max_of(Len(prompt) * 2, 100)), whole(1))
             question_part ==
                 IF found_questions > 0 THEN times(answered_score, Ratio(4, 10)) ELSE whole(0)
             prompt_words == meaningful_words(prompt)
             text_words == meaningful_words(text)
             overlap_part ==
                 IF prompt_words # {}
                 THEN times(Ratio(Cardinality(prompt_words \cap text_words),
                                  Cardinality(prompt_words)),
                            Ratio(4, 10))
                 ELSE whole(0)
             length_score ==
                 over(least(Ratio(Len(text), max_of(Len(prompt), 50)), whole(2)), whole(2))
         IN  least(plus(plus(question_part, overlap_part), times(length_score, Ratio(2, 10))),
                   whole(1))

\* score *= 0.8 when tokens_used is truthy and text_length / tokens_used < 2
token_factor(text_length, tokens_used) ==
    IF tokens_used # None /\ tokens_used[1] # 0
    THEN LET chars_per_token ==
                 IF tokens_used[1] > 0 THEN Ratio(text_length, tokens_used[1]) ELSE whole(4)
         IN  IF less(chars_per_token, whole(2)) THEN Ratio(8, 10) ELSE whole(1)
    ELSE whole(1)

\* variant: the score of a response that is too long is not floored at 0.5
too_long_score_unfloored(text_length, ideal_max) ==
    minus(whole(1), times(over(minus(text_length, ideal_max), ideal_max), Ratio(5, 10)))

\* Too long: score = max(0.5, 1.0 - (excess / ideal_max) * 0.5), for ideal_max # 0
too_long_score(text_length, ideal_max) ==
    LET excess == minus(text_length, ideal_max)
    IN  greatest(Ratio(5, 10),
                 minus(whole(1), times(over(excess, ideal_max), Ratio(5, 10))))

_length_appropriateness(text, prompt, tokens_used) ==
    IF text = "" THEN Returns(whole(0))
    ELSE LET text_length == whole(Len(text))
             ideal_min == Ratio(Len(prompt) * 15, 10)
             ideal_max == whole(Len(prompt) * 8)
             factor == token_factor(Len(text), tokens_used)
         IN  IF leq(ideal_min, text_length) /\ leq(text_length, ideal_max)
             THEN Returns(least(times(whole(1), factor), whole(1)))
             ELSE IF less(text_length, ideal_min)
             THEN Returns(least(times(over(text_length, ideal_min), factor), whole(1)))
             ELSE IF ideal_max[1] = 0
             THEN Raises("ZeroDivisionError")
             ELSE Returns(least(times(too_long_score(text_length, ideal_max), factor),
                                whole(1)))

\* the 3-grams of a list of words, as a list
ngrams_of(words) ==
    [i \in 1..max_of(Len(words) - 2, 0) |-> SubSeq(words, i, i + 2)]

_repetition_penalty(text) ==
    IF text = "" \/ Len(text) < 20 THEN Ratio(7, 10)
    ELSE LET words == split(lower(text))
         IN  IF Len(words) < 5 THEN Ratio(8, 10)
             ELSE LET ngrams == ngrams_of(words)
                      unique_ngrams == Cardinality(set_of(ngrams))
                      ngram_repetition ==
                          minus(whole(1), Ratio(unique_ngrams, Len(ngrams)))
                      long == SelectSeq(re_split_terminators(text),
                                        LAMBDA s : Len(strip(s)) > 10)
                      sentences == [k \in 1..Len(long) |-> lower(strip(long[k]))]
                      repetition_ratio ==
                          IF Len(sentences) > 1
                          THEN LET unique_sentences == Cardinality(set_of(sentences))
                                   sentence_repetition ==
                                       minus(whole(1),
                                             Ratio(unique_sentences, Len(sentences)))
                               IN  greatest(ngram_repetition,
                                            times(sentence_repetition, Ratio(7, 10)))
                          ELSE ngram_repetition
                      score == minus(whole(1), least(repetition_ratio, Ratio(8, 10)))
                  IN  greatest(score, Ratio(2, 10))

\* the first position at or after `from` whose character is not in `class`
skip(text, from, class) ==
    IF \E j \in from..Len(text) : char_at(text, j) \notin class
    THEN CHOOSE j \in from..Len(text) :
            /\ char_at(text, j) \notin class
            /\ \A k \in from..(j - 1) : char_at(text, k) \in class
    ELSE Len(text) + 1

\* the list markers of list_patterns: \d+[\.\)], [-*] and [a-z][\.\)].
\* The position after the marker that starts at j, or 0 when none does.
marker_end(text, j, pattern) ==
    LET closes(k) == k <= Len(text) /\ char_at(text, k) \in {".", ")"}
    IN  CASE pattern = "numbered" ->
                LET k == skip(text, j, DigitChars)
                IN  IF k > j /\ closes(k) THEN k + 1 ELSE 0
          [] pattern = "bullet" ->
                IF j <= Len(text) /\ char_at(text, j) \in {"-", "*"} THEN j + 1 ELSE 0
          [] pattern = "lettered" ->
                IF j <= Len(text) /\ char_at(text, j) \in LowercaseChars /\ closes(j + 1)
                THEN j + 2 ELSE 0

\* a match of r'\n\s*<marker>\s+' that starts at i: the position after it, or 0
match_end(text, i, pattern) ==
    IF char_at(text, i) # "\n" THEN 0
    ELSE LET m == marker_end(text, skip(text, i + 1, Whitespace), pattern)
         IN  IF m = 0 THEN 0
             ELSE LET e == skip(text, m, Whitespace)
                  IN  IF e > m THEN e ELSE 0

\* len(re.findall(pattern, text)): the non-overlapping matches, leftmost first
RECURSIVE findall_count(_, _, _)
findall_count(text, from, pattern) ==
    LET found == {i \in from..Len(text) : match_end(text, i, pattern) # 0}
    IN  IF found = {} THEN 0
        ELSE LET i == CHOOSE i \in found : \A j \in found : i <= j
             IN  1 + findall_count(text, match_end(text, i, pattern), pattern)

list_patterns == <<"numbered", "bullet", "lettered">>

_structural_richness(text) ==
    IF text = "" THEN whole(0)
    ELSE LET paragraphs == 1 + count_pair(text, "\n")
             paragraph_part ==
                 IF paragraphs > 1
                 THEN times(least(Ratio(paragraphs, 5), whole(1)), Ratio(3, 10))
                 ELSE Ratio(1, 10)
             list_count ==
                 sum([k \in 1..Len(list_patterns) |-> findall_count(text, 1, list_patterns[k])])
             list_part ==
                 IF list_count > 0
                 THEN times(least(Ratio(list_count, 3), whole(1)), Ratio(3, 10))
                 ELSE whole(0)
             formatting_count ==
                 count_pair(text, "*") + count_char(text, "*") + count_char(text, "_")
                     + count_char(text, "#")
             formatting_part ==
                 times(least(Ratio(formatting_count, 5), whole(1)), Ratio(2, 10))
             sentences == sentences_of(text)
             starters ==
                 [k \in 1..(IF Len(sentences) < 10 THEN Len(sentences) ELSE 10) |->
                     IF split(sentences[k]) # <<>> THEN lower(split(sentences[k])[1]) ELSE ""]
             variety_part ==
                 IF Len(sentences) > 1
                 THEN times(least(Ratio(Cardinality(set_of(starters)),
                                        max_of(Len(sentences), 5)),
                                  whole(1)),
                            Ratio(2, 10))
                 ELSE whole(0)
         IN  least(plus(plus(plus(paragraph_part, list_part), formatting_part), variety_part),
                   whole(1))

\* the weights dict, in the order `for key in weights` visits it
weights ==
    << [key |-> "coherence_score",        weight |-> Ratio(25, 100)],
       [key |-> "completeness_score",     weight |-> Ratio(30, 100)],
       [key |-> "length_appropriateness", weight |-> Ratio(15, 100)],
       [key |-> "repetition_penalty",     weight |-> Ratio(15, 100)],
       [key |-> "structural_richness",    weight |-> Ratio(15, 100)] >>

\* variant: the plain mean of the five sub-scores
overall_score_unweighted(metrics) ==
    over(sum_floats([k \in 1..Len(weights) |-> metrics[weights[k].key]]), whole(Len(weights)))

\* sum(metrics[key] * weights[key] for key in weights)
overall_score(metrics) ==
    sum_floats([k \in 1..Len(weights) |-> times(metrics[weights[k].key], weights[k].weight)])

calculate_all(response_text, prompt, tokens_used) ==
    LET length == _length_appropriateness(response_text, prompt, tokens_used)
    IN  IF ~length.returns THEN length
        ELSE LET metrics ==
                     [coherence_score        |-> _coherence_score(response_text),
                      completeness_score     |-> _completeness_score(response_text, prompt),
                      length_appropriateness |-> length.value,
                      repetition_penalty     |-> _repetition_penalty(response_text),
                      structural_richness    |-> _structural_richness(response_text)]
             IN  Returns(metrics @@ [overall_score |-> overall_score(metrics)])

(***************************************************************************)
(* llm_service.py: generate_batch                                          *)
(***************************************************************************)
\* the coroutine generate_response(prompt, **combo) created for one combination
new_task(combo) ==
    [combo |-> combo, state |-> "pending", text |-> "", tokens_used |-> None, error |-> ""]

\* what generate_response can do: return {"text", "tokens_used"} or raise
Success(text, tokens_used) == [ok |-> TRUE, text |-> text, tokens_used |-> tokens_used, error |-> ""]
Failure(error) == [ok |-> FALSE, text |-> "", tokens_used |-> None, error |-> error]
GenerationOutcomes ==
    { Success("Plants turn light into sugar. They release oxygen.", Some(12)),
      Success("", None),
      Failure("Rate limit reached") }

\* variant: results in completion order (asyncio.as_completed), not argument order
gather_as_completed(tasks, completion_order) ==
    [k \in 1..Len(completion_order) |-> tasks[completion_order[k]]]

\* completed_tasks of `await asyncio.gather(*tasks, return_exceptions=True)`:
\* one entry per awaitable, in the order the awaitables were passed
gather(tasks, completion_order) == tasks

\* the body of the for loop over enumerate(completed_tasks)
batch_entry(result, combo) ==
    IF result.state = "failed"
    THEN [text |-> "Error: " \o result.error, tokens_used |-> None] @@ combo
    ELSE combo @@ [text |-> result.text, tokens_used |-> result.tokens_used]

\* the list generate_batch returns once gather has returned
generate_batch_results(parameter_combinations, tasks, completion_order) ==
    LET completed_tasks == gather(tasks, completion_order)
    IN  [i \in 1..Len(completed_tasks) |->
            batch_entry(completed_tasks[i], parameter_combinations[i])]

\* variant: resume as soon as one call has settled (asyncio.wait FIRST_COMPLETED)
any_settled(tasks) == \E i \in 1..Len(tasks) : tasks[i].state # "pending"

\* the condition under which the awaited gather resumes generate_batch
all_settled(tasks) == \A i \in 1..Len(tasks) : tasks[i].state # "pending"

(***************************************************************************)
(* db/models.py: Experiment and Response rows                              *)
(***************************************************************************)
Experiment(id, prompt) == [id |-> id, prompt |-> prompt, responses |-> <<>>]

Response(experiment_id, llm_result, metrics) ==
    [experiment_id     |-> experiment_id,
     temperature       |-> llm_result.temperature,
     top_p             |-> llm_result.top_p,
     max_tokens        |-> llm_result.max_tokens,
     presence_penalty  |-> llm_result.presence_penalty,
     frequency_penalty |-> llm_result.frequency_penalty,
     response_text     |-> llm_result.text,
     tokens_used       |-> llm_result.tokens_used,
     metrics           |-> Some(metrics)]

\* variant: gather without return_exceptions raises the first exception
gather_raises_first_exception(tasks) == \E i \in 1..Len(tasks) : tasks[i].state = "failed"

\* asyncio.gather(..., return_exceptions=True) hands exceptions back as
\* results: the await itself never raises because of a task's exception
gather_raises(tasks) == FALSE

(***************************************************************************)
(* Requests.                                                               *)
(***************************************************************************)
Prompts == {"Explain photosynthesis"}

Grid == {100 * i : i \in 0..MaxTenths}
CoarseGrid == {0, 500, 1000}
Steps == {None, Some(0), Some(-100), Some(10), Some(100), Some(500)}

\* ranges given by min, max and an optional step: every min <= max of the
\* grid with every step, and ranges the schema refuses (max one notch below
\* min, min below Field(ge=0))
SweepRanges(grid) ==
    {ParameterRange(bounds[1], bounds[2], step, None) :
        bounds \in {b \in grid \X grid : b[1] <= b[2]}, step \in Steps}
    \cup {ParameterRange(min, min - 100, None, None) : min \in grid \ {0}}
    \cup {ParameterRange(-100, max, None, None) : max \in grid}

\* ranges given by explicit values (min and max are still required fields)
FiveValues == <<0, 250, 500, 750, 1000>>
SevenValues == <<100, 200, 300, 400, 500, 600, 700>>
ListRanges ==
    {ParameterRange(0, 1000, step, Some(values)) :
        step \in {None, Some(100)}, values \in {<<>>, <<900, 100>>, FiveValues, SevenValues}}

Optional(S) == {None} \cup {Some(x) : x \in S}

TopPRanges == {ParameterRange(0, 1000, None, Some(FiveValues)),
               ParameterRange(0, 1000, None, Some(SevenValues))}
MaxTokensRanges == {ParameterRange(100500, 200000, None, None)}
PresencePenaltyRanges == {ParameterRange(0, 1000, None, None)}
FrequencyPenaltyRanges == {ParameterRange(0, 500, Some(500), None)}

ExperimentRequests(temperatures, top_ps, max_tokens, presence_penalties, frequency_penalties) ==
    [prompt            : Prompts,
     temperature       : temperatures,
     top_p             : top_ps,
     max_tokens        : max_tokens,
     presence_penalty  : presence_penalties,
     frequency_penalty : frequency_penalties]

\* how many generation calls create_experiment issues for a request
batch_size(request) ==
    IF ~schema_valid(request) \/ ~validate_parameter_ranges(request) THEN 0
    ELSE LET combos == generate_parameter_combinations(request)
         IN  IF combos.returns THEN Len(combos.value) ELSE 0

\* requests of the admission specification: every sweep of the temperature
\* on the 0.1 grid, every other slot absent or swept
AdmissionRequests ==
    ExperimentRequests(Optional(SweepRanges(Grid) \cup ListRanges), Optional(TopPRanges),
                       Optional(MaxTokensRanges), Optional(PresencePenaltyRanges),
                       Optional(FrequencyPenaltyRanges))

\* requests of the batch specification: temperature sweeps on a coarse grid,
\* max_tokens and frequency_penalty absent or swept
BatchRequests ==
    ExperimentRequests(Optional(SweepRanges(CoarseGrid) \cup ListRanges), {None},
                       Optional(MaxTokensRanges), {None},
                       Optional(FrequencyPenaltyRanges))

(***************************************************************************)
(* State.                                                                  *)
(***************************************************************************)
VARIABLES
    pc,                \* where create_experiment stands
    request,           \* Optional: the request being served
    combinations,      \* the list generate_parameter_combinations returned
    tasks,             \* generate_batch: one generate_response call per combination
    completion_order,  \* indices of tasks in the order in which they settled
    llm_results,       \* Optional: the list generate_batch returned
    db,                \* the experiments table, each row with its responses
    db_before,         \* the experiments table when the request arrived
    api_key,           \* whether OPENAI_API_KEY is set in the environment
    scored             \* Optional: a direct call of calculate_all and its outcome

vars == <<pc, request, combinations, tasks, completion_order, llm_results, db, db_before,
         api_key, scored>>

Init ==
    /\ pc = "idle"
    /\ request = None
    /\ combinations = <<>>
    /\ tasks = <<>>
    /\ completion_order = <<>>
    /\ llm_results = None
    /\ db = <<Experiment(1, "Earlier prompt")>>
    /\ db_before = db
    /\ api_key \in BOOLEAN
    /\ scored = None

\* the primary key the database gives the next Experiment row
next_id(table) == Len(table) + 1

(***************************************************************************)
(* A request body arrives at POST /api/experiments/.                       *)
(***************************************************************************)
post(r) ==
    /\ pc = "idle"
    /\ pc' = "received"
    /\ request' = Some(r)
    /\ UNCHANGED <<combinations, tasks, completion_order, llm_results, db, db_before, api_key, scored>>

(***************************************************************************)
(* experiments.py: create_experiment, up to its first suspension           *)
(***************************************************************************)
\* the body fails pydantic validation: FastAPI answers 422 without calling the handler
reject_unprocessable ==
    /\ pc = "received"
    /\ ~schema_valid(request[1])
    /\ pc' = "http_422"
    /\ UNCHANGED <<request, combinations, tasks, completion_order, llm_results, db, db_before, api_key, scored>>

\* variant: the Experiment row is committed before the ranges are validated
reject_after_commit ==
    /\ pc = "received"
    /\ schema_valid(request[1])
    /\ ~validate_parameter_ranges(request[1])
    /\ db' = Append(db, Experiment(next_id(db), request[1].prompt))
    /\ pc' = "http_400"
    /\ UNCHANGED <<request, combinations, tasks, completion_order, llm_results, db_before, api_key, scored>>

\* validate_parameter_ranges says no: HTTPException 400
reject_bad_request ==
    /\ pc = "received"
    /\ schema_valid(request[1])
    /\ ~validate_parameter_ranges(request[1])
    /\ pc' = "http_400"
    /\ UNCHANGED <<request, combinations, tasks, completion_order, llm_results, db, db_before, api_key, scored>>

\* generate_parameter_combinations never returns: the handler stays in it
expansion_runs_away ==
    /\ pc = "received"
    /\ schema_valid(request[1])
    /\ validate_parameter_ranges(request[1])
    /\ ~generate_parameter_combinations(request[1]).returns
    /\ pc' = "expanding"
    /\ UNCHANGED <<request, combinations, tasks, completion_order, llm_results, db, db_before, api_key, scored>>

\* the Experiment row is committed, then LLMService() raises ValueError
\* (no API key) outside the try block: 500
service_unavailable ==
    /\ pc = "received"
    /\ schema_valid(request[1])
    /\ validate_parameter_ranges(request[1])
    /\ generate_parameter_combinations(request[1]).returns
    /\ ~api_key
    /\ combinations' = generate_parameter_combinations(request[1]).value
    /\ db' = Append(db, Experiment(next_id(db), request[1].prompt))
    /\ pc' = "service_error"
    /\ UNCHANGED <<request, tasks, completion_order, llm_results, db_before, api_key, scored>>

\* the Experiment row is committed and generate_batch creates one
\* generate_response call per combination and awaits them
start_batch ==
    /\ pc = "received"
    /\ schema_valid(request[1])
    /\ validate_parameter_ranges(request[1])
    /\ generate_parameter_combinations(request[1]).returns
    /\ api_key
    /\ LET combos == generate_parameter_combinations(request[1]).value
       IN  /\ combinations' = combos
           /\ tasks' = [i \in 1..Len(combos) |-> new_task(combos[i])]
    /\ db' = Append(db, Experiment(next_id(db), request[1].prompt))
    /\ pc' = "gather"
    /\ UNCHANGED <<request, completion_order, llm_results, db_before, api_key, scored>>

(***************************************************************************)
(* llm_service.py: one generate_response call settles                      *)
(***************************************************************************)
generate_response(i, outcome) ==
    /\ pc = "gather"
    /\ i \in 1..Len(tasks)
    /\ tasks[i].state = "pending"
    /\ tasks' = [tasks EXCEPT ![i] =
                    [combo       |-> @.combo,
                     state       |-> IF outcome.ok THEN "ok" ELSE "failed",
                     text        |-> outcome.text,
                     tokens_used |-> outcome.tokens_used,
                     error       |-> outcome.error]]
    /\ completion_order' = Append(completion_order, i)
    /\ UNCHANGED <<pc, request, combinations, llm_results, db, db_before, api_key, scored>>

(***************************************************************************)
(* experiments.py: create_experiment, from the return of the awaited       *)
(* gather to the end (generate_batch lines 103-116, then lines 65-100)     *)
(***************************************************************************)
\* the texts a result of the batch can carry: the text of a generation
\* outcome, or "Error: " and the message of the exception
ResultTexts ==
    {outcome.text : outcome \in GenerationOutcomes}
        \cup {"Error: " \o outcome.error : outcome \in GenerationOutcomes}

\* calculator.calculate_all(response_text=..., prompt=..., tokens_used=...) on
\* every result a batch can carry, one evaluation per argument triple
RECURSIVE tabulate(_)
tabulate(calls) ==
    IF calls = {} THEN <<>>
    ELSE LET call == CHOOSE call \in calls : TRUE
         IN  (call :> calculate_all(call[1], call[2], call[3])) @@ tabulate(calls \ {call})

metrics_dict ==
    tabulate(ResultTexts \X Prompts \X {outcome.tokens_used : outcome \in GenerationOutcomes})

\* the rows db.add(response) adds for the experiment
responses_of(experiment_id, prompt, results) ==
    [i \in 1..Len(results) |->
        Response(experiment_id, results[i],
                 metrics_dict[<<results[i].text, prompt, results[i].tokens_used>>].value)]

\* calculator.calculate_all raises for one of the results of the batch
metrics_raise(prompt, results) ==
    \E i \in 1..Len(results) :
        ~metrics_dict[<<results[i].text, prompt, results[i].tokens_used>>].returns

create_experiment_resume ==
    /\ pc = "gather"
    /\ all_settled(tasks) \/ gather_raises(tasks)
    /\ IF gather_raises(tasks)
       THEN /\ db' = SubSeq(db, 1, Len(db) - 1)
            /\ llm_results' = None
            /\ pc' = "batch_error"
       ELSE LET results == generate_batch_results(combinations, tasks, completion_order)
                experiment == db[Len(db)]
            IN  /\ llm_results' = Some(results)
                /\ IF metrics_raise(request[1].prompt, results)
                   THEN /\ db' = db
                        /\ pc' = "metrics_error"
                   ELSE /\ db' = [db EXCEPT ![Len(db)].responses =
                                    responses_of(experiment.id, request[1].prompt, results)]
                        /\ pc' = "http_201"
    /\ UNCHANGED <<request, combinations, tasks, completion_order, db_before, api_key, scored>>

(***************************************************************************)
(* Specifications.                                                         *)
(***************************************************************************)
\* the model serves one request: a request arrives only while none is served
Arriving(requests) == IF pc = "idle" THEN requests ELSE {}

\* one request that starts at most MaxBatch calls, every interleaving of them
Next ==
    \/ \E r \in Arriving(BatchRequests) : batch_size(r) <= MaxBatch /\ post(r)
    \/ reject_unprocessable
    \/ reject_bad_request
    \/ expansion_runs_away
    \/ service_unavailable
    \/ start_batch
    \/ \E i \in 1..MaxBatch, outcome \in GenerationOutcomes : generate_response(i, outcome)
    \/ create_experiment_resume

Spec == Init /\ [][Next]_vars

\* the event loop runs every call to its end and resumes the handler
FairSpec ==
    /\ Spec
    /\ WF_vars(\E i \in 1..MaxBatch, outcome \in GenerationOutcomes : generate_response(i, outcome))
    /\ WF_vars(create_experiment_resume)

\* admission of one request: validation, expansion and the start of the batch
NextAdmission ==
    \/ \E r \in Arriving(AdmissionRequests) : post(r)
    \/ reject_unprocessable
    \/ reject_bad_request
    \/ expansion_runs_away
    \/ service_unavailable
    \/ start_batch

SpecAdmission == Init /\ [][NextAdmission]_vars

(***************************************************************************)
(* The scorer called on its own: calculate_all on every text made of at    *)
(* most MaxFragments fragments, every prompt and every token count below.  *)
(***************************************************************************)
Fragments ==
    {"Plants make food. ", "However, light is used! ", "What is it? ", "\n\n- **item** "}

\* the texts made of at most n fragments
RECURSIVE texts_of(_)
texts_of(n) ==
    IF n = 0 THEN {""}
    ELSE texts_of(n - 1) \cup {t \o f : t \in texts_of(n - 1), f \in Fragments}

ResponseTexts == texts_of(MaxFragments)
ScorerPrompts == {"", "Hi", "Explain how plants make food"}
TokenCounts == {None, Some(0), Some(-1), Some(12)}

InitScorer ==
    /\ pc = "scorer"
    /\ request = None
    /\ combinations = <<>>
    /\ tasks = <<>>
    /\ completion_order = <<>>
    /\ llm_results = None
    /\ db = <<>>
    /\ db_before = db
    /\ api_key = TRUE
    /\ scored = None

\* calculate_all(response_text, prompt, tokens_used) is called and returns or raises
call_calculate_all(response_text, prompt, tokens_used) ==
    /\ pc = "scorer"
    /\ scored = None
    /\ scored' = Some([response_text |-> response_text,
                       prompt        |-> prompt,
                       tokens_used   |-> tokens_used,
                       outcome       |-> calculate_all(response_text, prompt, tokens_used)])
    /\ UNCHANGED <<pc, request, combinations, tasks, completion_order, llm_results, db,
                   db_before, api_key>>

NextScorer ==
    \E response_text \in ResponseTexts, prompt \in ScorerPrompts, tokens_used \in TokenCounts :
        call_calculate_all(response_text, prompt, tokens_used)

SpecScorer == InitScorer /\ [][NextScorer]_vars

(***************************************************************************)
(* Properties.                                                             *)
(***************************************************************************)
ParameterKeys == {"temperature", "top_p", "max_tokens", "presence_penalty", "frequency_penalty"}

Pending(i) == tasks[i].state = "pending"
Failed(i) == tasks[i].state = "failed"
Succeeded(i) == tasks[i].state = "ok"

\* the Experiment row create_experiment added for the request
created_experiment == db[Len(db)]

\* the number of values get_values resolves each slot to, multiplied
resolved_count(r) ==
    Len(get_values(r.temperature, DefaultTemperature).value)
      * Len(get_values(r.top_p, DefaultTopP).value)
      * Len(get_values(r.max_tokens, DefaultMaxTokens).value)
      * Len(get_values(r.presence_penalty, DefaultPresencePenalty).value)
      * Len(get_values(r.frequency_penalty, DefaultFrequencyPenalty).value)

\* create_experiment has called generate_parameter_combinations
expansion_called ==
    pc \in {"expanding", "service_error", "gather", "batch_error", "metrics_error", "http_201"}

\* C1: whatever the order in which the calls complete, the list generate_batch
\* returns has one entry per combination, and entry i carries the five
\* parameter values of combinations[i] and the result of the call that was
\* issued for combinations[i].
C1_BatchKeepsInputOrder ==
    llm_results # None =>
        LET out == llm_results[1]
        IN  /\ Len(out) = Len(combinations)
            /\ \A i \in 1..Len(out) :
                  /\ \A key \in ParameterKeys : out[i][key] = combinations[i][key]
                  /\ tasks[i].combo = combinations[i]
                  /\ Succeeded(i) =>
                        /\ out[i].text = tasks[i].text
                        /\ out[i].tokens_used = tasks[i].tokens_used
                  /\ Failed(i) => out[i].text = "Error: " \o tasks[i].error

\* three calls completed in reverse order, the first and the last with
\* different results, and the batch has returned
C1_Witness ==
    /\ llm_results # None
    /\ completion_order = <<3, 2, 1>>
    /\ Succeeded(1) /\ Failed(3)

\* C2: item failures never make generate_batch raise or abort the batch: the
\* handler never takes its batch-error path, a settling call changes no other
\* call, once all calls have settled the batch returns, and the entry of
\* every call that succeeded is made of its own combination and its own
\* result only (so it is what it would be had no call failed).
C2_FailuresAreContained ==
    /\ [](pc # "batch_error")
    /\ [][\A i \in 1..Len(tasks) :
             (i \in 1..Len(tasks') /\ tasks'[i] # tasks[i]) =>
                 /\ Pending(i)
                 /\ \A j \in 1..Len(tasks) : j # i => tasks'[j] = tasks[j]]_vars
    /\ [][(pc = "gather" /\ pc' # "gather") => (pc' = "http_201" /\ llm_results' # None)]_vars
    /\ [](llm_results # None =>
            \A i \in 1..Len(tasks) :
                Succeeded(i) =>
                    llm_results[1][i] =
                        combinations[i] @@ [text |-> tasks[i].text,
                                            tokens_used |-> tasks[i].tokens_used])

\* a batch in which one call failed and another succeeded has returned
C2_Witness ==
    /\ pc = "http_201"
    /\ \E i, j \in 1..Len(tasks) : Failed(i) /\ Succeeded(j)

\* C3: in a batch with failed and successful calls, every entry whose call
\* failed carries an error marker, no generated text and no quality metrics,
\* and every entry whose call succeeded carries metrics computed from its text.
C3_FailedEntriesCarryNoTextNoMetrics ==
    pc = "http_201" =>
        \A i \in 1..Len(tasks) :
            /\ Failed(i) =>
                  /\ "error" \in DOMAIN llm_results[1][i]
                  /\ "text" \notin DOMAIN llm_results[1][i]
                  /\ created_experiment.responses[i].metrics = None
            /\ Succeeded(i) =>
                  created_experiment.responses[i].metrics =
                      Some(calculate_all(tasks[i].text, request[1].prompt,
                                         tasks[i].tokens_used).value)

\* C4: generate_batch has returned only if every call it issued has settled,
\* and under fair scheduling of the calls a started batch eventually returns.
C4_ReturnsAfterAllSettled ==
    /\ [](llm_results # None => \A i \in 1..Len(tasks) : ~Pending(i))
    /\ (pc = "gather" ~> llm_results # None)

\* a batch of at least two calls has returned
C4_Witness ==
    /\ llm_results # None
    /\ Len(tasks) >= 2
    /\ Len(completion_order) = Len(tasks)

\* C5: a request that validate_parameter_ranges rejects ends before any work:
\* no Experiment row is added, no batch is started, no call is issued.
C5_RejectedBeforeAnyWork ==
    pc = "http_400" =>
        /\ db = db_before
        /\ combinations = <<>>
        /\ tasks = <<>>
        /\ completion_order = <<>>
        /\ llm_results = None

\* a schema-valid request has been rejected by validate_parameter_ranges
C5_Witness ==
    /\ pc = "http_400"
    /\ schema_valid(request[1])
    /\ total_combinations(request[1]) > MAX_COMBINATIONS

\* C6: validate_parameter_ranges rejects exactly the requests whose
\* combination count, the product of the numbers of values the five slots
\* resolve to, is greater than 50 (and so accepts a count of exactly 50).
C6_RejectsExactlyAboveFifty ==
    (pc \in {"http_400", "service_error", "gather"}
        /\ generate_parameter_combinations(request[1]).returns) =>
        ((pc = "http_400") <=> (resolved_count(request[1]) > MAX_COMBINATIONS))

\* C7: every batch create_experiment starts issues at most 50 generation calls.
C7_AtMostFiftyCalls ==
    pc = "gather" => Len(tasks) <= MAX_COMBINATIONS /\ Len(combinations) <= MAX_COMBINATIONS

\* some range of the request has max < min or a step that is zero or negative
malformed(r) ==
    \E i \in 1..Len(Slots) :
        /\ r[Slots[i]] # None
        /\ \/ r[Slots[i]][1].max < r[Slots[i]][1].min
           \/ (r[Slots[i]][1].step # None /\ r[Slots[i]][1].step[1] <= 0)

\* C8: a request with a malformed range (max < min, or a step that is zero or
\* negative) is rejected with a validation error before expansion is
\* attempted and before any generation call is made.
C8_MalformedRangeRejected ==
    (request # None /\ malformed(request[1])) => pc \in {"received", "http_422", "http_400"}

\* C9: for every request, generate_parameter_combinations returns a list
\* whose length is the product of the numbers of values the five slots
\* resolve to.
C9_ExpansionLengthIsProduct ==
    expansion_called =>
        /\ generate_parameter_combinations(request[1]).returns
        /\ Len(combinations) = resolved_count(request[1])

\* C10: for every request, the count validate_parameter_ranges computes
\* equals the length of the list generate_parameter_combinations returns.
C10_CountEqualsExpansionLength ==
    expansion_called =>
        /\ generate_parameter_combinations(request[1]).returns
        /\ total_combinations(request[1]) = Len(generate_parameter_combinations(request[1]).value)

\* the call of calculate_all that SpecScorer made, and what came of it
scorer_returned == scored # None /\ scored[1].outcome.returns
MetricNames ==
    {"coherence_score", "completeness_score", "length_appropriateness",
     "repetition_penalty", "structural_richness", "overall_score"}

\* C11: calculate_all never raises: for every response text, every prompt (the
\* empty prompt and the empty text included) and every optional token count
\* it returns a complete set of six metrics.
C11_CalculateAllNeverRaises ==
    scored # None =>
        /\ scored[1].outcome.returns
        /\ DOMAIN scored[1].outcome.value = MetricNames

in_unit_interval(score) == leq(whole(0), score) /\ leq(score, whole(1))

\* C12: each of the five sub-scores and the overall score that calculate_all
\* returns lies in [0,1], for every text, prompt and token count, empty
\* strings included.
C12_ScoresInUnitInterval ==
    scorer_returned =>
        \A name \in MetricNames : in_unit_interval(scored[1].outcome.value[name])

\* a response far longer than its prompt is scored, with a token count that
\* triggers the inefficiency factor: length_appropriateness sits on its floor
C12_Witness ==
    /\ scorer_returned
    /\ scored[1].prompt = "Hi"
    /\ Len(scored[1].response_text) > 48
    /\ scored[1].outcome.value.length_appropriateness = Ratio(5, 10)
    /\ scored[1].outcome.value.repetition_penalty # whole(1)

\* C13: the overall score calculate_all returns is 0.25*coherence +
\* 0.30*completeness + 0.15*length appropriateness + 0.15*repetition penalty
\* + 0.15*structural richness of the sub-scores of the same result, and the
\* five weights sum to exactly 1.
C13_OverallIsWeightedSum ==
    /\ sum_floats([k \in 1..Len(weights) |-> weights[k].weight]) = whole(1)
    /\ scorer_returned =>
          LET m == scored[1].outcome.value
          IN  m.overall_score =
                  plus(times(Ratio(25, 100), m.coherence_score),
                  plus(times(Ratio(30, 100), m.completeness_score),
                  plus(times(Ratio(15, 100), m.length_appropriateness),
                  plus(times(Ratio(15, 100), m.repetition_penalty),
                       times(Ratio(15, 100), m.structural_richness)))))

\* a result whose five sub-scores are positive and pairwise different
C13_Witness ==
    /\ scorer_returned
    /\ LET m == scored[1].outcome.value
           subs == {m.coherence_score, m.completeness_score, m.length_appropriateness,
                    m.repetition_penalty, m.structural_richness}
       IN  Cardinality(subs) = 5 /\ whole(0) \notin subs

\* the fraction of the sentences of a text that a terminator follows in the
\* text: every non-blank piece of the split but the piece after the last terminator
terminated_fraction(text) ==
    LET pieces == re_split_terminators(text)
        terminated == {k \in 1..(Len(pieces) - 1) : strip(pieces[k]) # ""}
    IN  Ratio(Cardinality(terminated), Len(sentences_of(text)))

\* C16: for a text of at least 10 characters with two or more sentences the
\* coherence score includes 0.4 times the fraction of sentences that end in
\* '.', '!' or '?' (the full 0.4 when every sentence ends with such a mark),
\* next to the transition and the length-variance signals.
C16_CoherenceCountsPunctuation ==
    (/\ scorer_returned
     /\ Len(strip(scored[1].response_text)) >= 10
     /\ Len(sentences_of(scored[1].response_text)) >= 2) =>
        LET text == scored[1].response_text
            sentences == sentences_of(text)
        IN  scored[1].outcome.value.coherence_score =
                least(plus(times(terminated_fraction(text), Ratio(4, 10)),
                           plus(times(transition_score(text, sentences), Ratio(3, 10)),
                                times(variance_score(sentences), Ratio(3, 10)))),
                      whole(1))

\* the built-in default of a slot
slot_default(slot) ==
    CASE slot = "temperature"       -> DefaultTemperature
      [] slot = "top_p"             -> DefaultTopP
      [] slot = "max_tokens"        -> DefaultMaxTokens
      [] slot = "presence_penalty"  -> DefaultPresencePenalty
      [] slot = "frequency_penalty" -> DefaultFrequencyPenalty

\* the sequence the code resolves a slot of request r to (max_tokens as ints)
resolved_values(r, slot) ==
    LET floats == get_values(r[slot], slot_default(slot)).value
    IN  IF slot = "max_tokens" THEN [k \in 1..Len(floats) |-> int_of(floats[k])] ELSE floats

\* the sequence a slot specification stands for: the explicit values; else
\* min, min + step, min + 2*step, ... up to max; else [min, max] or [min];
\* the default when the specification is absent
specified_values(spec, slot) ==
    LET floats ==
            IF spec = None THEN <<slot_default(slot)>>
            ELSE IF truthy_list(spec[1].values) THEN spec[1].values[1]
            ELSE IF spec[1].step # None
            THEN [k \in 1..((spec[1].max - spec[1].min) \div spec[1].step[1] + 1) |->
                      spec[1].min + (k - 1) * spec[1].step[1]]
            ELSE IF spec[1].min # spec[1].max THEN <<spec[1].min, spec[1].max>>
            ELSE <<spec[1].min>>
    IN  IF slot = "max_tokens" THEN [k \in 1..Len(floats) |-> int_of(floats[k])] ELSE floats

\* every step given in request r is positive
steps_positive(r) ==
    \A i \in 1..Len(Slots) :
        (r[Slots[i]] # None /\ r[Slots[i]][1].step # None) => r[Slots[i]][1].step[1] > 0

\* create_experiment holds the list generate_parameter_combinations returned
expanded == pc \in {"service_error", "gather", "batch_error", "metrics_error", "http_201"}

\* C14: each slot resolves to its explicit values in the given order; else to
\* min, min+step, min+2*step, ... <= max in ascending order; else to
\* [min, max] (or [min] when they are equal); else to the slot's default;
\* and the max_tokens values are coerced to integers.
C14_SlotsResolveAsSpecified ==
    (expanded /\ steps_positive(request[1])) =>
        \A i \in 1..Len(Slots) :
            /\ resolved_values(request[1], Slots[i]) = specified_values(request[1][Slots[i]], Slots[i])
            /\ {combinations[k][Slots[i]] : k \in 1..Len(combinations)}
                   = set_of(specified_values(request[1][Slots[i]], Slots[i]))

\* the number of combinations over which slot i keeps its value: the product
\* of the lengths of the sequences of the slots nested inside it
RECURSIVE stride(_, _)
stride(lengths, i) == IF i >= Len(lengths) THEN 1 ELSE lengths[i + 1] * stride(lengths, i + 1)

\* C15: the returned list is the Cartesian product of the five resolved
\* sequences in lexicographic order, temperature outermost and
\* frequency_penalty innermost: combination k has in each slot the element
\* its sequence holds at the slot's digit of the mixed-radix form of k.
C15_ProductInNestingOrder ==
    expanded =>
        LET lengths == [i \in 1..Len(Slots) |-> Len(resolved_values(request[1], Slots[i]))]
        IN  /\ Len(combinations) = stride(<<1>> \o lengths, 1)
            /\ \A k \in 1..Len(combinations), i \in 1..Len(Slots) :
                  combinations[k][Slots[i]] =
                      resolved_values(request[1], Slots[i])
                          [(((k - 1) \div stride(lengths, i)) % lengths[i]) + 1]

\* an expansion in which the outermost and the innermost slot both vary
C15_Witness ==
    /\ pc = "gather"
    /\ Len(resolved_values(request[1], "temperature")) >= 3
    /\ Len(resolved_values(request[1], "max_tokens")) = 2
    /\ Len(resolved_values(request[1], "frequency_penalty")) = 2
    /\ Len(combinations) >= 12

\* C17: for every request the schema admits and validate_parameter_ranges
\* accepts, a zero or negative step included, generate_parameter_combinations
\* terminates and returns a finite, non-empty list.
C17_ExpansionTerminates ==
    (/\ pc # "idle" /\ pc # "received"
     /\ schema_valid(request[1])
     /\ validate_parameter_ranges(request[1])) =>
        /\ pc # "expanding"
        /\ combinations # <<>>

\* C18: once create_experiment has ended after creating an Experiment row,
\* either the row is stored with exactly one response per combination, or the
\* row has been deleted and the experiments table is as it was before the request.
C18_NoOrphanExperiment ==
    pc \in {"service_error", "batch_error", "metrics_error", "http_201"} =>
        \/ /\ Len(db) = Len(db_before) + 1
           /\ SubSeq(db, 1, Len(db_before)) = db_before
           /\ Len(created_experiment.responses) = Len(combinations)
           /\ Len(combinations) >= 1
        \/ db = db_before

====
